---- MODULE Spec2Model ----
(***************************************************************************)
(* Model of the task tracker `tt` (src/src/main.cpp).                      *)
(*                                                                         *)
(* A C++ std::string is a sequence of one-character strings; the data file *)
(* tasks.tsv is a flag (does it exist) and the sequence of its lines.  A   *)
(* line never holds a newline: save_tasks writes one '\n' after each task  *)
(* and encode_field removes every '\n' of the title.                       *)
(***************************************************************************)
EXTENDS Integers, Sequences, FiniteSets, TLC

VARIABLES
    present,    \* tasks.tsv exists
    lines,      \* the lines of tasks.tsv, in file order
    cmd,        \* the last invocation: [op, args]
    exit,       \* its exit status
    out,        \* its standard output: [rows, added]
    assigned,   \* history: ids reported by the successful adds so far
    rep,        \* history: the last invocation repeated the successful one before it
    rfile,      \* race: the shared data file [present, lines]
    rpc,        \* race: where each process stands in main's add branch
    rargs,      \* race: each process's arguments
    rv,         \* race: each process's vector v as load_tasks returned it
    rid,        \* race: the id each process printed
    rexit,      \* race: each process's exit status
    ctasks,     \* codec: the vector handed to save_tasks
    cfile,      \* codec: the lines save_tasks wrote
    cloaded,    \* codec: the vector load_tasks read back
    cpc,        \* codec: "init", "saved", "loaded"
    lpc         \* lister: "ready" until the store drawn has been listed, then "done"

vars == <<present, lines, cmd, exit, out, assigned, rep,
          rfile, rpc, rargs, rv, rid, rexit, ctasks, cfile, cloaded, cpc, lpc>>

-----------------------------------------------------------------------------
(* Bounds of the model.                                                    *)

\* add is not run once the store holds this many tasks
MaxTasks == 2
\* add is not run once it would assign an id above this
MaxId == 2
\* the codec specification saves vectors of at most this many tasks
MaxCodecTasks == 2
\* the list specification sorts stores of at most this many tasks
MaxListTasks == 3

-----------------------------------------------------------------------------
(* Characters and strings.                                                 *)

Digits == <<"0", "1", "2", "3", "4", "5", "6", "7", "8", "9">>

IsDigit(c) == \E i \in 1..10 : Digits[i] = c

DigitVal(c) == (CHOOSE i \in 1..10 : Digits[i] = c) - 1

\* the character codes std::string's operator< compares, for the characters
\* a due date that passed is_valid_date can hold
Ord(c) == IF IsDigit(c) THEN 48 + DigitVal(c) ELSE 45

RECURSIVE StrLess(_, _)
StrLess(a, b) ==
    IF b = <<>> THEN FALSE
    ELSE IF a = <<>> THEN TRUE
    ELSE IF Ord(Head(a)) # Ord(Head(b)) THEN Ord(Head(a)) < Ord(Head(b))
    ELSE StrLess(Tail(a), Tail(b))

ToUpper(c) ==
    CASE c = "h" -> "H"
      [] c = "m" -> "M"
      [] c = "l" -> "L"
      [] c = "a" -> "A"
      [] c = "b" -> "B"
      [] c = "x" -> "X"
      [] c = "i" -> "I"
      [] c = "g" -> "G"
      [] OTHER -> c

\* argv[i][0]: the first character, or the terminating NUL of an empty string
FirstChar(s) == IF s = <<>> THEN "NUL" ELSE s[1]

IsWs(c) == c \in {" ", "\t", "\n", "\r"}

\* s.find_first_not_of(" \t\n\r"), from index i; 0 for npos
RECURSIVE find_first_not_ws(_, _)
find_first_not_ws(s, i) ==
    IF i > Len(s) THEN 0
    ELSE IF ~IsWs(s[i]) THEN i
    ELSE find_first_not_ws(s, i + 1)

\* s.find_last_not_of(" \t\n\r"), from index i down
RECURSIVE find_last_not_ws(_, _)
find_last_not_ws(s, i) ==
    IF i < 1 THEN 0
    ELSE IF ~IsWs(s[i]) THEN i
    ELSE find_last_not_ws(s, i - 1)

trim(s) ==
    LET b == find_first_not_ws(s, 1)
    IN  IF b = 0 THEN <<>> ELSE SubSeq(s, b, find_last_not_ws(s, Len(s)))

is_valid_date(d) ==
    /\ Len(d) = 10
    /\ d[5] = "-"
    /\ d[8] = "-"
    /\ \A i \in 1..10 : i \in {5, 8} \/ IsDigit(d[i])

prio_weight(p) ==
    CASE p = "H" -> 0
      [] p = "M" -> 1
      [] p = "L" -> 2
      [] OTHER -> 1

SEP == "|"

RECURSIVE encode_field(_)
encode_field(s) ==
    IF s = <<>> THEN <<>>
    ELSE LET c == Head(s)
         IN  IF c \in {"\n", "\r"} THEN encode_field(Tail(s))
             ELSE <<IF c = SEP THEN "/" ELSE c>> \o encode_field(Tail(s))

\* the fields between the delimiters, the one after the last delimiter included
RECURSIVE Fields(_, _, _)
Fields(s, delim, cur) ==
    IF s = <<>> THEN <<cur>>
    ELSE IF Head(s) = delim THEN <<cur>> \o Fields(Tail(s), delim, <<>>)
    ELSE Fields(Tail(s), delim, Append(cur, Head(s)))

\* std::getline fails, and the loop ends, when it extracts nothing before the
\* end of the stream: an empty last field is never pushed
split(line, delim) ==
    LET f == Fields(line, delim, <<>>)
    IN  IF f[Len(f)] = <<>> THEN SubSeq(f, 1, Len(f) - 1) ELSE f

RECURSIVE IntToStr(_)
IntToStr(n) ==
    IF n < 10 THEN <<Digits[n + 1]>>
    ELSE IntToStr(n \div 10) \o <<Digits[(n % 10) + 1]>>

RECURSIVE DigitsValue(_, _)
DigitsValue(s, acc) ==
    IF s = <<>> \/ ~IsDigit(Head(s)) THEN acc
    ELSE DigitsValue(Tail(s), 10 * acc + DigitVal(Head(s)))

RECURSIVE SkipWs(_)
SkipWs(s) == IF s # <<>> /\ IsWs(Head(s)) THEN SkipWs(Tail(s)) ELSE s

\* std::stoi: leading whitespace, an optional sign, then the digits up to the
\* first other character; it throws when there is no digit
stoi(s) ==
    LET t == SkipWs(s)
        neg == t # <<>> /\ Head(t) = "-"
        u == IF t # <<>> /\ Head(t) \in {"-", "+"} THEN Tail(t) ELSE t
    IN  IF u = <<>> \/ ~IsDigit(Head(u)) THEN [ok |-> FALSE, val |-> 0]
        ELSE [ok |-> TRUE,
              val |-> IF neg THEN 0 - DigitsValue(u, 0) ELSE DigitsValue(u, 0)]

parse_int(s) == IF stoi(s).ok THEN stoi(s).val ELSE -1

-----------------------------------------------------------------------------
(* Tasks and the store.                                                    *)

\* std::optional<std::string>
NoDue == [has |-> FALSE, val |-> <<>>]
Due(d) == [has |-> TRUE, val |-> d]

Task(id, done, priority, due, title) ==
    [id |-> id, done |-> done, priority |-> priority, due |-> due, title |-> title]

encode_task(t) ==
    IntToStr(t.id) \o <<SEP>>
    \o <<IF t.done THEN "1" ELSE "0">> \o <<SEP>>
    \o <<t.priority>> \o <<SEP>>
    \o (IF t.due.has THEN t.due.val ELSE <<"-">>) \o <<SEP>>
    \o encode_field(t.title)

save_tasks(v) == [i \in 1..Len(v) |-> encode_task(v[i])]

\* a line load_tasks turns into a task
Decodes(line) == trim(line) # <<>> /\ Len(split(line, SEP)) >= 5

decode_line(line) ==
    LET parts == split(line, SEP)
    IN  Task(stoi(parts[1]).val,
             parts[2] = <<"1">>,
             IF parts[3] = <<>> THEN "M" ELSE parts[3][1],
             IF parts[4] = <<"-">> THEN NoDue ELSE Due(parts[4]),
             parts[5])

RECURSIVE load_lines(_)
load_lines(ls) ==
    IF ls = <<>> THEN <<>>
    ELSE IF Decodes(Head(ls)) THEN <<decode_line(Head(ls))>> \o load_lines(Tail(ls))
    ELSE load_lines(Tail(ls))

\* an absent file yields the empty vector
load_tasks(p, ls) == IF p THEN load_lines(ls) ELSE <<>>

\* std::stoi throws out of load_tasks, and nothing in main catches it
load_throws(p, ls) ==
    p /\ \E i \in 1..Len(ls) : Decodes(ls[i]) /\ ~stoi(split(ls[i], SEP)[1]).ok

Max(a, b) == IF a >= b THEN a ELSE b

RECURSIVE MaxIdFrom(_, _)
MaxIdFrom(v, m) == IF v = <<>> THEN m ELSE MaxIdFrom(Tail(v), Max(m, Head(v).id))

\* faulty variant: the number of tasks plus one, not the largest id plus one
next_id_count(v) == Len(v) + 1

\* faulty variant: the largest id itself
next_id_max(v) == MaxIdFrom(v, 0)

next_id(v) == MaxIdFrom(v, 0) + 1

-----------------------------------------------------------------------------
(* The lister.                                                             *)

Sentinel == <<"9", "9", "9", "9", "-", "9", "9", "-", "9", "9">>

\* a.due.value_or("9999-99-99")
due_or(t) == IF t.due.has THEN t.due.val ELSE Sentinel

\* the tie-break the comparator always ends with
tie_less(a, b) ==
    IF due_or(a) # due_or(b) THEN StrLess(due_or(a), due_or(b))
    ELSE IF prio_weight(a.priority) # prio_weight(b.priority)
         THEN prio_weight(a.priority) < prio_weight(b.priority)
    ELSE a.id < b.id

\* faulty variant: done tasks are not put after the pending ones
task_less_unbucketed(a, b, sort_key) ==
    IF sort_key = "due" /\ due_or(a) # due_or(b)
    THEN StrLess(due_or(a), due_or(b))
    ELSE IF sort_key = "priority" /\ prio_weight(a.priority) # prio_weight(b.priority)
         THEN prio_weight(a.priority) < prio_weight(b.priority)
    ELSE IF sort_key = "id" /\ a.id # b.id THEN a.id < b.id
    ELSE tie_less(a, b)

\* the lambda handed to std::stable_sort
task_less(a, b, sort_key) ==
    IF a.done # b.done THEN ~a.done
    ELSE IF sort_key = "due" /\ due_or(a) # due_or(b)
         THEN StrLess(due_or(a), due_or(b))
    ELSE IF sort_key = "priority" /\ prio_weight(a.priority) # prio_weight(b.priority)
         THEN prio_weight(a.priority) < prio_weight(b.priority)
    ELSE IF sort_key = "id" /\ a.id # b.id THEN a.id < b.id
    ELSE tie_less(a, b)

\* x goes before the first element it is less than, after its equivalents
RECURSIVE insert_sorted(_, _, _)
insert_sorted(s, x, sort_key) ==
    IF s = <<>> THEN <<x>>
    ELSE IF task_less(x, Head(s), sort_key) THEN <<x>> \o s
    ELSE <<Head(s)>> \o insert_sorted(Tail(s), x, sort_key)

RECURSIVE stable_sort(_, _)
stable_sort(v, sort_key) ==
    IF v = <<>> THEN <<>>
    ELSE insert_sorted(stable_sort(SubSeq(v, 1, Len(v) - 1), sort_key),
                       v[Len(v)], sort_key)

Shown(t, filter) ==
    /\ ~(filter = "Pending" /\ t.done)
    /\ ~(filter = "Done" /\ ~t.done)

\* the rows list_cmd prints for the vector load_tasks returned
list_cmd(v, filter, sort_key) ==
    LET sorted == stable_sort(v, sort_key)
        Test(t) == Shown(t, filter)
    IN  SelectSeq(sorted, Test)

-----------------------------------------------------------------------------
(* main: one operator per command, from the arguments after argv[1] and    *)
(* the data file to the exit status, the data file and the output.         *)

Result(e, p, ls, rows, added) ==
    [exit |-> e, present |-> p, lines |-> ls, rows |-> rows, added |-> added]

Fail(p, ls) == Result(1, p, ls, <<>>, 0)

\* an exception nothing catches: std::terminate, the shell reports 134
Abort(p, ls) == Result(134, p, ls, <<>>, 0)

DashP == <<"-", "p">>
DashD == <<"-", "d">>
OptAll == <<"-", "-", "a", "l", "l">>
OptPending == <<"-", "-", "p", "e", "n", "d", "i", "n", "g">>
OptDone == <<"-", "-", "d", "o", "n", "e">>
OptSort == <<"-", "-", "s", "o", "r", "t", "=">>

\* the loop over argv of the add branch
RECURSIVE parse_add(_, _, _, _, _)
parse_add(args, i, pr, due, title_parts) ==
    IF i > Len(args)
    THEN [err |-> FALSE, pr |-> pr, due |-> due, title_parts |-> title_parts]
    ELSE LET a == args[i]
             bad == [err |-> TRUE, pr |-> pr, due |-> due, title_parts |-> title_parts]
         IN  IF a = DashP /\ i + 1 <= Len(args)
             THEN LET c == ToUpper(FirstChar(args[i + 1]))
                  IN  IF c \notin {"H", "M", "L"} THEN bad
                      ELSE parse_add(args, i + 2, c, due, title_parts)
             ELSE IF a = DashD /\ i + 1 <= Len(args)
             THEN IF ~is_valid_date(args[i + 1]) THEN bad
                  ELSE parse_add(args, i + 2, pr, Due(args[i + 1]), title_parts)
             ELSE IF a # <<>> /\ a[1] = "-" THEN bad
             ELSE parse_add(args, i + 1, pr, due, Append(title_parts, a))

RECURSIVE join_title(_)
join_title(parts) ==
    IF Len(parts) = 1 THEN parts[1]
    ELSE join_title(SubSeq(parts, 1, Len(parts) - 1)) \o <<" ">> \o parts[Len(parts)]

\* the task the add branch pushes onto v
new_task(v, pr, due, title) == Task(next_id(v), FALSE, pr, due, trim(title))

add_main(args, p, ls) ==
    IF Len(args) = 0 THEN Fail(p, ls)
    ELSE LET a == parse_add(args, 1, "M", NoDue, <<>>)
         IN  IF a.err \/ a.title_parts = <<>> THEN Fail(p, ls)
             ELSE IF load_throws(p, ls) THEN Abort(p, ls)
             ELSE LET v == load_tasks(p, ls)
                      t == new_task(v, a.pr, a.due, join_title(a.title_parts))
                  IN  Result(0, TRUE, save_tasks(Append(v, t)), <<>>, t.id)

IsPrefix(pre, s) == Len(pre) <= Len(s) /\ SubSeq(s, 1, Len(pre)) = pre

\* std::string compared with "due", "priority", "id"
key_name(k) ==
    CASE k = <<"d", "u", "e">> -> "due"
      [] k = <<"p", "r", "i", "o", "r", "i", "t", "y">> -> "priority"
      [] k = <<"i", "d">> -> "id"
      [] OTHER -> "other"

\* the loop over argv of the list branch
RECURSIVE parse_list(_, _, _, _)
parse_list(args, i, filter, sort_key) ==
    IF i > Len(args) THEN [err |-> FALSE, filter |-> filter, sort_key |-> sort_key]
    ELSE LET a == args[i]
         IN  IF a = OptAll THEN parse_list(args, i + 1, "All", sort_key)
             ELSE IF a = OptPending THEN parse_list(args, i + 1, "Pending", sort_key)
             ELSE IF a = OptDone THEN parse_list(args, i + 1, "Done", sort_key)
             ELSE IF IsPrefix(OptSort, a)
             THEN parse_list(args, i + 1, filter,
                             key_name(SubSeq(a, Len(OptSort) + 1, Len(a))))
             ELSE [err |-> TRUE, filter |-> filter, sort_key |-> sort_key]

list_main(args, p, ls) ==
    LET a == parse_list(args, 1, "All", "due")
    IN  IF a.err THEN Fail(p, ls)
        ELSE IF load_throws(p, ls) THEN Abort(p, ls)
        ELSE Result(0, p, ls, list_cmd(load_tasks(p, ls), a.filter, a.sort_key), 0)

\* faulty variant: the flag is flipped, not set
mark_toggled(v, id) ==
    LET k == CHOOSE i \in 1..Len(v) : v[i].id = id /\ \A j \in 1..(i - 1) : v[j].id # id
    IN  [v EXCEPT ![k].done = ~v[k].done]

\* the first task with this id is marked; the others stay as they are
mark_done(v, id) ==
    LET k == CHOOSE i \in 1..Len(v) : v[i].id = id /\ \A j \in 1..(i - 1) : v[j].id # id
    IN  [v EXCEPT ![k].done = TRUE]

done_main(args, p, ls) ==
    IF Len(args) = 0 \/ parse_int(args[1]) < 0 THEN Fail(p, ls)
    ELSE IF load_throws(p, ls) THEN Abort(p, ls)
    ELSE LET id == parse_int(args[1])
             v == load_tasks(p, ls)
         IN  IF \A i \in 1..Len(v) : v[i].id # id THEN Fail(p, ls)
             ELSE Result(0, TRUE, save_tasks(mark_done(v, id)), <<>>, 0)

\* std::remove_if followed by erase
remove_id(v, id) == LET Keep(t) == t.id # id IN SelectSeq(v, Keep)

\* faulty variant: the vector is saved before the test for a removed task
rm_main_saves_first(args, p, ls) ==
    IF Len(args) = 0 \/ parse_int(args[1]) < 0 THEN Fail(p, ls)
    ELSE IF load_throws(p, ls) THEN Abort(p, ls)
    ELSE LET id == parse_int(args[1])
             v == load_tasks(p, ls)
         IN  Result(IF Len(remove_id(v, id)) = Len(v) THEN 1 ELSE 0,
                    TRUE, save_tasks(remove_id(v, id)), <<>>, 0)

rm_main(args, p, ls) ==
    IF Len(args) = 0 \/ parse_int(args[1]) < 0 THEN Fail(p, ls)
    ELSE IF load_throws(p, ls) THEN Abort(p, ls)
    ELSE LET id == parse_int(args[1])
             v == load_tasks(p, ls)
         IN  IF Len(remove_id(v, id)) = Len(v) THEN Fail(p, ls)
             ELSE Result(0, TRUE, save_tasks(remove_id(v, id)), <<>>, 0)

\* the loop over argv of the clear branch
parse_clear(args) ==
    [err |-> \E i \in 1..Len(args) : args[i] \notin {OptAll, OptDone},
     clear_all |-> \E i \in 1..Len(args) : args[i] = OptAll]

\* faulty variant: the predicate of remove_if is inverted
remove_pending(v) == LET Keep(t) == t.done IN SelectSeq(v, Keep)

remove_done(v) == LET Keep(t) == ~t.done IN SelectSeq(v, Keep)

clear_main(args, p, ls) ==
    LET a == parse_clear(args)
    IN  IF a.err THEN Fail(p, ls)
        ELSE IF load_throws(p, ls) THEN Abort(p, ls)
        ELSE LET v == load_tasks(p, ls)
             IN  Result(0, TRUE,
                        save_tasks(IF a.clear_all THEN <<>> ELSE remove_done(v)),
                        <<>>, 0)

help_main(p, ls) == Result(0, p, ls, <<>>, 0)

unknown_main(p, ls) == Fail(p, ls)

-----------------------------------------------------------------------------
(* One invocation of tt after another, on one data file.                   *)

A == <<"a">>
BarB == <<"|", "b">>
Blank == <<" ">>
Empty == <<>>
DashX == <<"-", "x">>
High == <<"H", "i", "g", "h">>
D1 == <<"2", "0", "2", "4", "-", "0", "1", "-", "0", "2">>
BadDate == <<"2", "0", "2", "4", "-", "1", "-", "2">>

\* what follows "tt add"
AddArgs ==
    {<<>>, <<A>>, <<A, BarB>>, <<Blank>>, <<Empty>>, <<A, DashX>>,
     <<A, DashP, <<"l">>>>, <<A, DashP, <<"x">>>>, <<A, DashP, Empty>>, <<A, DashP>>,
     <<A, DashD, BadDate>>, <<DashP, High, A, DashD, D1>>}

\* what follows "tt done" and "tt rm"
IdArgs == {<<>>, <<<<"x">>>>, <<<<"-", "1">>>>} \cup {<<IntToStr(i)>> : i \in 1..MaxId}

\* what follows "tt clear"
ClearArgs == {<<>>, <<OptDone>>, <<OptAll>>, <<DashX>>}

SortBy(k) == OptSort \o k

\* what follows "tt list"
ListArgs == {<<>>, <<OptAll>>, <<OptPending, SortBy(<<"i", "d">>)>>, <<DashX>>}

NoOut == [rows |-> <<>>, added |-> 0]

seqvars == <<present, lines, cmd, exit, out, assigned, rep>>
racevars == <<rfile, rpc, rargs, rv, rid, rexit>>
codecvars == <<ctasks, cfile, cloaded, cpc>>

\* no invocation has run yet
SeqIdle ==
    /\ cmd = [op |-> "none", args |-> <<>>]
    /\ exit = 0
    /\ out = NoOut
    /\ assigned = {}
    /\ rep = FALSE

RaceOff ==
    /\ rfile = [present |-> FALSE, bytes |-> <<>>]
    /\ rpc = <<>>
    /\ rargs = <<>>
    /\ rv = <<>>
    /\ rid = <<>>
    /\ rexit = <<>>

CodecOff ==
    /\ ctasks = <<>>
    /\ cfile = <<>>
    /\ cloaded = <<>>
    /\ cpc = "off"

\* the data file is absent or empty
Init ==
    /\ present \in BOOLEAN
    /\ lines = <<>>
    /\ SeqIdle
    /\ RaceOff
    /\ CodecOff
    /\ lpc = "off"

\* the process runs to its end: the file, the exit status and the output are its result
Run(op, args, r) ==
    /\ present' = r.present
    /\ lines' = r.lines
    /\ cmd' = [op |-> op, args |-> args]
    /\ exit' = r.exit
    /\ out' = [rows |-> r.rows, added |-> r.added]
    /\ assigned' = IF op = "add" /\ r.exit = 0 THEN assigned \cup {r.added} ELSE assigned
    /\ rep' = (exit = 0 /\ cmd = [op |-> op, args |-> args])
    /\ UNCHANGED <<racevars, codecvars>>

AddCmd ==
    /\ Len(load_tasks(present, lines)) < MaxTasks
    /\ next_id(load_tasks(present, lines)) <= MaxId
    /\ \E args \in AddArgs :
         \E r \in {add_main(args, present, lines)} : Run("add", args, r)
    /\ UNCHANGED lpc

ListWith(S) ==
    \E args \in S :
        \E r \in {list_main(args, present, lines)} : Run("list", args, r)

ListCmd ==
    /\ ListWith(ListArgs)
    /\ UNCHANGED lpc

DoneCmd ==
    /\ \E args \in IdArgs :
         \E r \in {done_main(args, present, lines)} : Run("done", args, r)
    /\ UNCHANGED lpc

RmCmd ==
    /\ \E args \in IdArgs :
         \E r \in {rm_main(args, present, lines)} : Run("rm", args, r)
    /\ UNCHANGED lpc

ClearCmd ==
    /\ \E args \in ClearArgs :
         \E r \in {clear_main(args, present, lines)} : Run("clear", args, r)
    /\ UNCHANGED lpc

HelpCmd ==
    /\ Run("help", <<>>, help_main(present, lines))
    /\ UNCHANGED lpc

UnknownCmd ==
    /\ Run("bogus", <<>>, unknown_main(present, lines))
    /\ UNCHANGED lpc

Next ==
    \/ AddCmd
    \/ ListCmd
    \/ DoneCmd
    \/ RmCmd
    \/ ClearCmd
    \/ HelpCmd
    \/ UnknownCmd

Spec == Init /\ [][Next]_vars

-----------------------------------------------------------------------------
(* The lister on its own: a store the commands can leave behind is drawn,  *)
(* and tt list runs on it once, with any filter and any sort key.          *)

FilterArgs == {<<>>, <<OptPending>>, <<OptDone>>}

SortArgs ==
    {<<>>, <<SortBy(<<"p", "r", "i", "o", "r", "i", "t", "y">>)>>,
     <<SortBy(<<"i", "d">>)>>, <<SortBy(<<"x">>)>>}

ListAllArgs ==
    {f \o k : f \in FilterArgs, k \in SortArgs}
        \cup {<<OptAll>>, <<OptDone, SortBy(<<"d", "u", "e">>)>>}

\* the tasks add can create and done can mark, but for the id
ListTask(id, done, shape) == Task(id, done, shape[1], shape[2], A)

ListShapes ==
    {<<"H", NoDue>>, <<"M", NoDue>>, <<"M", Due(D1)>>, <<"L", Due(D1)>>,
     <<"M", Due(Sentinel)>>}

\* ids 1..n in file order, as add assigns them to an empty store
ListStores ==
    UNION {{[i \in 1..n |-> ListTask(i, f[i][1], f[i][2])] :
                f \in [1..n -> BOOLEAN \X ListShapes]} : n \in 0..MaxListTasks}

InitList ==
    /\ present = TRUE
    /\ lines \in {save_tasks(v) : v \in ListStores}
    /\ SeqIdle
    /\ RaceOff
    /\ CodecOff
    /\ lpc = "ready"

ListOnce ==
    /\ lpc = "ready"
    /\ lpc' = "done"
    /\ ListWith(ListAllArgs)

NextList == ListOnce

SpecList == InitList /\ [][NextList]_vars

-----------------------------------------------------------------------------
(* The codec on its own: a vector of tasks is saved, then loaded.          *)

CodecIds == {3, 12}

CodecTitles == {<<>>, <<" ", "a">>}

CodecTasks ==
    {Task(id, done, pr, due, title) :
        id \in CodecIds, done \in BOOLEAN, pr \in {"H", "M", "L"},
        due \in {NoDue, Due(D1)}, title \in CodecTitles}

CodecVectors == UNION {[1..n -> CodecTasks] : n \in 0..MaxCodecTasks}

InitCodec ==
    /\ present = FALSE
    /\ lines = <<>>
    /\ SeqIdle
    /\ RaceOff
    /\ lpc = "off"
    /\ ctasks \in CodecVectors
    /\ cfile = <<>>
    /\ cloaded = <<>>
    /\ cpc = "init"

CodecSave ==
    /\ cpc = "init"
    /\ cfile' = save_tasks(ctasks)
    /\ cpc' = "saved"
    /\ UNCHANGED <<seqvars, racevars, ctasks, cloaded, lpc>>

CodecLoad ==
    /\ cpc = "saved"
    /\ cloaded' = load_tasks(TRUE, cfile)
    /\ cpc' = "loaded"
    /\ UNCHANGED <<seqvars, racevars, ctasks, cfile, lpc>>

NextCodec ==
    \/ CodecSave
    \/ CodecLoad

SpecCodec == InitCodec /\ [][NextCodec]_vars

-----------------------------------------------------------------------------
(* Two tt add processes on one data file.  Each loads the file, opens it   *)
(* for writing, which truncates it, and writes its vector when the stream  *)
(* is closed; nothing locks the file in between.                           *)

Procs == {1, 2}

\* std::getline over the file: the lines between the '\n' characters
file_lines(bytes) == split(bytes, "\n")

RECURSIVE file_bytes(_)
file_bytes(ls) ==
    IF ls = <<>> THEN <<>> ELSE Head(ls) \o <<"\n">> \o file_bytes(Tail(ls))

\* faulty variant: the stream appends, as with ios::app
write_at_end(new, old) == old \o new

\* a write at offset 0 of a stream opened without ios::app: bytes of the
\* file beyond the written ones stay
write_at_start(new, old) ==
    IF Len(new) >= Len(old) THEN new ELSE new \o SubSeq(old, Len(new) + 1, Len(old))

RaceArgs == {<<A>>, <<A, <<"b">>>>, <<A, DashP, <<"x">>>>}

RaceFiles ==
    {[present |-> FALSE, bytes |-> <<>>],
     [present |-> TRUE, bytes |-> <<>>],
     [present |-> TRUE, bytes |-> file_bytes(save_tasks(<<Task(1, FALSE, "M", NoDue, A)>>))],
     [present |-> TRUE,
      bytes |-> file_bytes(save_tasks(<<Task(1, TRUE, "H", Due(D1), A),
                                        Task(3, FALSE, "L", NoDue, A)>>))]}

InitRace ==
    /\ present = FALSE
    /\ lines = <<>>
    /\ SeqIdle
    /\ CodecOff
    /\ lpc = "off"
    /\ rfile \in RaceFiles
    /\ rargs \in [Procs -> RaceArgs]
    /\ rpc = [p \in Procs |-> "start"]
    /\ rv = [p \in Procs |-> <<>>]
    /\ rid = [p \in Procs |-> 0]
    /\ rexit = [p \in Procs |-> -1]

\* the task process p pushes onto the vector it loaded
race_task(p) ==
    LET a == parse_add(rargs[p], 1, "M", NoDue, <<>>)
    IN  new_task(rv[p], a.pr, a.due, join_title(a.title_parts))

\* argument checks, then auto v = load_tasks()
RaceLoad(p) ==
    /\ rpc[p] = "start"
    /\ LET r == add_main(rargs[p], rfile.present, file_lines(rfile.bytes))
       IN  IF r.exit # 0
           THEN /\ rpc' = [rpc EXCEPT ![p] = "done"]
                /\ rexit' = [rexit EXCEPT ![p] = r.exit]
                /\ rv' = rv
           ELSE /\ rpc' = [rpc EXCEPT ![p] = "loaded"]
                /\ rv' = [rv EXCEPT ![p] = load_tasks(rfile.present, file_lines(rfile.bytes))]
                /\ rexit' = rexit
    /\ UNCHANGED <<seqvars, codecvars, lpc, rfile, rargs, rid>>

\* std::ofstream out(data_path(), std::ios::trunc)
RaceOpen(p) ==
    /\ rpc[p] = "loaded"
    /\ rfile' = [present |-> TRUE, bytes |-> <<>>]
    /\ rpc' = [rpc EXCEPT ![p] = "open"]
    /\ UNCHANGED <<seqvars, codecvars, lpc, rargs, rv, rid, rexit>>

\* the stream is flushed and closed as save_tasks returns; the id is printed
RaceWrite(p) ==
    /\ rpc[p] = "open"
    /\ rfile' = [present |-> TRUE,
                 bytes |-> write_at_start(
                               file_bytes(save_tasks(Append(rv[p], race_task(p)))),
                               rfile.bytes)]
    /\ rid' = [rid EXCEPT ![p] = race_task(p).id]
    /\ rexit' = [rexit EXCEPT ![p] = 0]
    /\ rpc' = [rpc EXCEPT ![p] = "done"]
    /\ UNCHANGED <<seqvars, codecvars, lpc, rargs, rv>>

NextRace ==
    \E p \in Procs :
        \/ RaceLoad(p)
        \/ RaceOpen(p)
        \/ RaceWrite(p)

SpecRace == InitRace /\ [][NextRace]_vars

-----------------------------------------------------------------------------
(* The properties.  Store is the vector load_tasks reads from the file;    *)
(* the records of the file are its lines, read field by field.             *)

Store == load_tasks(present, lines)

Ids(v) == {v[i].id : i \in 1..Len(v)}

Range(q) == {q[i] : i \in 1..Len(q)}

FileSame == present' = present /\ lines' = lines

AddedOk == cmd'.op = "add" /\ exit' = 0

\* the id and the done field a line of the file records
RecordId(line) == stoi(split(line, SEP)[1]).val
RecordDone(line) == split(line, SEP)[2] = <<"1">>

\* C1, as claimed: the id a successful add assigns differs from the id of every
\* earlier successful add, the adds whose tasks were removed since included.
C1_NeverReused == [][AddedOk => out'.added \notin assigned]_vars

\* C1, amended: the id a successful add assigns is one more than the largest id
\* load_tasks reads from the file at that moment (1 when it reads none), so it
\* differs from the id of every task then in the store; an id whose task was
\* removed may be assigned again.
C1_AboveStore ==
    [][AddedOk =>
        /\ \A i \in Ids(Store) : out'.added > i
        /\ out'.added = 1 \/ (out'.added - 1) \in Ids(Store)]_vars

\* an add succeeded on a store that already held a task
C1_Witness ==
    /\ cmd.op = "add"
    /\ exit = 0
    /\ out.added = 2
    /\ Ids(Store) = {1, 2}

\* C2: no two records of the data file have the same id, every id is a
\* positive integer, and the record a successful add has just written is not done.
C2_UniqueIds ==
    /\ \A i, j \in 1..Len(lines) : i # j => RecordId(lines[i]) # RecordId(lines[j])
    /\ \A i \in 1..Len(lines) : RecordId(lines[i]) >= 1
    /\ \A i, j \in 1..Len(Store) : i # j => Store[i].id # Store[j].id
    /\ (cmd.op = "add" /\ exit = 0) =>
           \E i \in 1..Len(lines) :
               RecordId(lines[i]) = out.added /\ ~RecordDone(lines[i])

\* a second task was added after the first was marked done
C2_Witness ==
    /\ cmd.op = "add"
    /\ exit = 0
    /\ Len(Store) = 2
    /\ Store[1].done
    /\ ~Store[2].done

\* the argument of done or rm names an id the store does not hold
MissingId(args) ==
    \E i \in 1..MaxId : args = <<IntToStr(i)>> /\ i \notin Ids(Store)

\* C3: an invocation that exits with status 1 leaves the data file as it was
\* (an absent file stays absent), and rm and done of an id the store does not
\* hold exit with status 1.
C3_FailedUnchanged ==
    [][/\ exit' = 1 => FileSame
       /\ (cmd'.op \in {"rm", "done"} /\ MissingId(cmd'.args)) => exit' = 1]_vars

\* rm of an id that is not there failed on a store that holds a task
C3_Witness ==
    /\ cmd = [op |-> "rm", args |-> <<IntToStr(2)>>]
    /\ exit = 1
    /\ Ids(Store) = {1}

\* the title add computes: the non-flag arguments joined by spaces, trimmed
TitleOf(args) ==
    LET a == parse_add(args, 1, "M", NoDue, <<>>)
    IN  IF a.title_parts = <<>> THEN <<>> ELSE trim(join_title(a.title_parts))

\* C4, as claimed: add exits with status 1 and persists nothing whenever the
\* title it computes is empty.
C4_EmptyTitleRejected ==
    [][(cmd'.op = "add" /\ TitleOf(cmd'.args) = <<>>) => (exit' = 1 /\ FileSame)]_vars

UpperStr(s) == [i \in 1..Len(s) |-> ToUpper(s[i])]

\* C5, as claimed: add succeeds only if every -p value, in upper case, is one
\* of the strings H, M, L.
C5_PriorityValidated ==
    [][AddedOk =>
        \A i \in 1..(Len(cmd'.args) - 1) :
            cmd'.args[i] = DashP =>
                UpperStr(cmd'.args[i + 1]) \in {<<"H">>, <<"M">>, <<"L">>}]_vars

\* the task with this id marked done, the others as they were
Marked(v, id) ==
    [k \in 1..Len(v) |-> IF v[k].id = id THEN [v[k] EXCEPT !.done = TRUE] ELSE v[k]]

\* C7: done of an id the store holds exits with status 0 and marks that task
\* alone; run again with the same id it exits with status 0 again and leaves
\* the file as the first run left it.
C7_DoneIdempotent ==
    [][/\ \A i \in Ids(Store) :
            cmd' = [op |-> "done", args |-> <<IntToStr(i)>>] =>
                /\ exit' = 0
                /\ present'
                /\ load_tasks(present', lines') = Marked(Store, i)
                /\ lines' = save_tasks(Marked(Store, i))
       /\ (cmd.op = "done" /\ exit = 0 /\ cmd' = cmd) => (exit' = 0 /\ FileSame)]_vars

\* done ran a second time on the same id, in a store with another task
C7_Witness ==
    /\ rep
    /\ cmd.op = "done"
    /\ exit = 0
    /\ Len(Store) = 2

Pending(v) == LET NotDone(t) == t.done = FALSE IN SelectSeq(v, NotDone)

\* C9: clear with no argument or with --done leaves exactly the pending tasks,
\* unchanged and in their order; clear --all leaves an empty store, and a list
\* that follows it prints no row; clear with another argument exits with
\* status 1 and changes nothing.
C9_ClearSelected ==
    [][/\ (cmd'.op = "clear" /\ cmd'.args \in {<<>>, <<OptDone>>}) =>
            /\ exit' = 0
            /\ present'
            /\ load_tasks(present', lines') = Pending(Store)
            /\ lines' = save_tasks(Pending(Store))
       /\ (cmd'.op = "clear" /\ cmd'.args = <<OptAll>>) =>
            /\ exit' = 0
            /\ present'
            /\ lines' = <<>>
       /\ (cmd'.op = "clear" /\ cmd'.args \notin {<<>>, <<OptDone>>, <<OptAll>>}) =>
            (exit' = 1 /\ FileSame)
       /\ (cmd = [op |-> "clear", args |-> <<OptAll>>] /\ exit = 0
              /\ cmd'.op = "list" /\ exit' = 0) => out'.rows = <<>>]_vars

\* clear removed the done task 1 and kept the pending task 2
C9_Witness ==
    /\ cmd.op = "clear"
    /\ cmd.args = <<OptDone>>
    /\ exit = 0
    /\ assigned = {1, 2}
    /\ Ids(Store) = {2}
    /\ ~Store[1].done

\* C6, as claimed: a vector of tasks with positive ids, priorities H, M, L, due
\* dates absent or well-formed and titles free of '|', '\n' and '\r', the
\* empty title included, is loaded back as it was saved.
C6_RoundTrip == cpc = "loaded" => cloaded = ctasks

\* the filter and the sort key the arguments of list ask for
WantFilter(args) ==
    IF OptPending \in Range(args) THEN "Pending"
    ELSE IF OptDone \in Range(args) THEN "Done"
    ELSE "All"

WantKey(args) ==
    IF SortBy(<<"p", "r", "i", "o", "r", "i", "t", "y">>) \in Range(args) THEN "priority"
    ELSE IF SortBy(<<"i", "d">>) \in Range(args) THEN "id"
    ELSE IF SortBy(<<"x">>) \in Range(args) THEN "none"
    ELSE "due"

Matches(t, filter) ==
    CASE filter = "Pending" -> ~t.done
      [] filter = "Done" -> t.done
      [] OTHER -> TRUE

\* a well-formed date as the number yyyymmdd; "9999-99-99" for an absent one
DateNum(t) ==
    IF t.due.has
    THEN LET d == t.due.val
             N(i) == DigitVal(d[i])
         IN  10000 * (1000 * N(1) + 100 * N(2) + 10 * N(3) + N(4))
                 + 100 * (10 * N(6) + N(7)) + 10 * N(9) + N(10)
    ELSE 99999999

Weight(t) == CASE t.priority = "H" -> 0 [] t.priority = "M" -> 1 [] t.priority = "L" -> 2

\* the order the claim gives: pending first, the key, then due, weight, id
Rank(t, key) ==
    <<IF t.done THEN 1 ELSE 0,
      CASE key = "due" -> DateNum(t)
        [] key = "priority" -> Weight(t)
        [] key = "id" -> t.id
        [] OTHER -> 0,
      DateNum(t), Weight(t), t.id>>

RankLess(r, q) ==
    \E i \in 1..Len(r) : r[i] < q[i] /\ \A j \in 1..(i - 1) : r[j] = q[j]

RowsAsClaimed(rows, v, filter, key) ==
    /\ Range(rows) = {t \in Range(v) : Matches(t, filter)}
    /\ Len(rows) = Cardinality(Range(rows))
    /\ \A i, j \in 1..Len(rows) : i < j => RankLess(Rank(rows[i], key), Rank(rows[j], key))
    /\ LET all == list_cmd(v, "All", IF key = "none" THEN "other" ELSE key)
           Keep(t) == Matches(t, filter)
       IN  rows = SelectSeq(all, Keep)

\* C8: the rows list prints are the tasks the filter selects, pending before
\* done, then by the key asked for, then by due date, priority weight and id;
\* they are the rows of the unfiltered list with the others left out; and
\* list leaves the data file as it was.
C8_ListSorted ==
    [][(cmd'.op = "list" /\ exit' = 0) =>
        /\ FileSame
        /\ RowsAsClaimed(out'.rows, Store, WantFilter(cmd'.args), WantKey(cmd'.args))]_vars

\* list --pending --sort=priority printed a later task before an earlier one
C8_Witness ==
    /\ lpc = "done"
    /\ cmd.args = <<OptPending, SortBy(<<"p", "r", "i", "o", "r", "i", "t", "y">>)>>
    /\ Len(Store) = 3
    /\ Len(out.rows) = 2
    /\ out.rows[1].id > out.rows[2].id

RaceStore == load_tasks(rfile.present, file_lines(rfile.bytes))

\* C10: two adds that loaded the same vector and both exited with status 0
\* printed the same id, and the file holds that vector and the task of one of
\* them only: the other task is lost.
C10_LostUpdate ==
    (/\ \A p \in Procs : rpc[p] = "done" /\ rexit[p] = 0
     /\ rv[1] = rv[2])
        => /\ rid[1] = rid[2]
           /\ \E p \in Procs : RaceStore = Append(rv[p], race_task(p))
           /\ Len(RaceStore) = Len(rv[1]) + 1

\* both adds of different titles exited with status 0 and one task is missing
C10_Witness ==
    /\ \A p \in Procs : rpc[p] = "done" /\ rexit[p] = 0
    /\ rargs[1] # rargs[2]
    /\ rid[1] = rid[2]
    /\ Len(RaceStore) = 2
    /\ RaceStore[2].title = A

====
